---- MODULE Spec2Model ----
(***************************************************************************)
(* The guest side of the CCOS sandbox capability bridge (ccos_sdk.py):     *)
(* _call, memory.get, memory.store, io.log and call, over a stdout pipe    *)
(* to the host and a stdin pipe from it.  Text is modelled as a sequence   *)
(* of lexemes (the marker tokens, JSON punctuation, JSON literals and the  *)
(* line terminator), Python values as tagged records.                      *)
(***************************************************************************)
EXTENDS Integers, Sequences, FiniteSets, TLC

(***************************************************************************)
(* Bounds of the model.                                                    *)
(***************************************************************************)
MaxOps == 2
MaxHostWrites == 1
MaxPrints == 2
NumSessions == 2

(***************************************************************************)
(* Python values.                                                          *)
(***************************************************************************)
PyNone == [k |-> "None"]
PyBool(b) == [k |-> "bool", b |-> b]
PyInt(n) == [k |-> "int", n |-> n]
PyStr(s) == [k |-> "str", s |-> s]
PyList(items) == [k |-> "list", items |-> items]
\* A dict is its items in insertion order, keys unique.
PyDict(d) == [k |-> "dict", d |-> d]

\* The strings and integers that occur in the modelled runs.
StrUniverse ==
    {"success", "value", "error", "found", "expired", "cap", "inputs", "key",
     "default", "message", "k", "boom", "hello", "ccos.memory.get",
     "ccos.memory.store", "ccos.io.log", "demo.echo", "",
     "unknown capability"}
IntUniverse == {0, 1, 7, 42}

\* bool(v): Python truth value testing.
Truthy(v) ==
    CASE v.k = "None" -> FALSE
      [] v.k = "bool" -> v.b
      [] v.k = "int" -> v.n # 0
      [] v.k = "str" -> v.s # ""
      [] v.k = "list" -> v.items # <<>>
      [] v.k = "dict" -> v.d # <<>>

\* key in d
DictHas(d, key) == \E i \in 1..Len(d) : d[i][1] = key

\* d.get(key, default)
DictGet(d, key, default) ==
    IF DictHas(d, key)
    THEN d[CHOOSE i \in 1..Len(d) : d[i][1] = key][2]
    ELSE default

\* d[key] = val: an existing key keeps its position, a new key is appended.
DictSet(d, key, val) ==
    IF DictHas(d, key)
    THEN [i \in 1..Len(d) |-> IF d[i][1] = key THEN <<key, val>> ELSE d[i]]
    ELSE Append(d, <<key, val>>)

\* str(v), as an f-string formats a value; containers are not formatted in
\* the modelled runs beyond their type name.
PyStrOf(v) ==
    CASE v.k = "None" -> "None"
      [] v.k = "bool" -> IF v.b THEN "True" ELSE "False"
      [] v.k = "int" -> ToString(v.n)
      [] v.k = "str" -> v.s
      [] v.k = "list" -> "[...]"
      [] v.k = "dict" -> "{...}"

(***************************************************************************)
(* JSON text: json.dumps and json.loads over lexemes.                      *)
(***************************************************************************)
NL == "\n"
WS == " "

\* The lexeme of a JSON string literal.
Quote(s) == "\"" \o s \o "\""

IsStringLexeme(t) == \E s \in StrUniverse : Quote(s) = t
Unquote(t) == CHOOSE s \in StrUniverse : Quote(s) = t

IsIntLexeme(t) == \E n \in IntUniverse : ToString(n) = t
IntOf(t) == CHOOSE n \in IntUniverse : ToString(n) = t

RECURSIVE Dumps(_, _, _)
RECURSIVE DumpsItems(_, _, _, _)
RECURSIVE DumpsPairs(_, _, _, _)

\* json.dumps(v) with the given item and key separators.
Dumps(v, itemSep, keySep) ==
    CASE v.k = "None" -> <<"null">>
      [] v.k = "bool" -> IF v.b THEN <<"true">> ELSE <<"false">>
      [] v.k = "int" -> <<ToString(v.n)>>
      [] v.k = "str" -> <<Quote(v.s)>>
      [] v.k = "list" -> <<"[">> \o DumpsItems(v.items, 1, itemSep, keySep) \o <<"]">>
      [] v.k = "dict" -> <<"{">> \o DumpsPairs(v.d, 1, itemSep, keySep) \o <<"}">>

DumpsItems(items, i, itemSep, keySep) ==
    IF i > Len(items) THEN <<>>
    ELSE (IF i > 1 THEN itemSep ELSE <<>>)
         \o Dumps(items[i], itemSep, keySep)
         \o DumpsItems(items, i + 1, itemSep, keySep)

DumpsPairs(d, i, itemSep, keySep) ==
    IF i > Len(d) THEN <<>>
    ELSE (IF i > 1 THEN itemSep ELSE <<>>)
         \o <<Quote(d[i][1])>> \o keySep
         \o Dumps(d[i][2], itemSep, keySep)
         \o DumpsPairs(d, i + 1, itemSep, keySep)

\* json.dumps(v, ensure_ascii=False): the default separators ", " and ": ".
JsonDumps(v) == Dumps(v, <<",", WS>>, <<":", WS>>)

\* The lexeme at position i, "" past the end.
Tok(toks, i) == IF i >= 1 /\ i <= Len(toks) THEN toks[i] ELSE ""

RECURSIVE SkipWs(_, _)
SkipWs(toks, i) == IF Tok(toks, i) = WS THEN SkipWs(toks, i + 1) ELSE i

ParseError == [ok |-> FALSE]
Parsed(v, end) == [ok |-> TRUE, val |-> v, end |-> end]

RECURSIVE ScanOnce(_, _)
RECURSIVE JSONObject(_, _, _)
RECURSIVE JSONArray(_, _, _)

\* scan_once: decode one JSON value starting at position i.
ScanOnce(toks, i) ==
    LET t == Tok(toks, i) IN
    CASE t = "null" -> Parsed(PyNone, i + 1)
      [] t = "true" -> Parsed(PyBool(TRUE), i + 1)
      [] t = "false" -> Parsed(PyBool(FALSE), i + 1)
      [] t = "{" ->
            LET j == SkipWs(toks, i + 1) IN
            IF Tok(toks, j) = "}" THEN Parsed(PyDict(<<>>), j + 1)
            ELSE JSONObject(toks, j, <<>>)
      [] t = "[" ->
            LET j == SkipWs(toks, i + 1) IN
            IF Tok(toks, j) = "]" THEN Parsed(PyList(<<>>), j + 1)
            ELSE JSONArray(toks, j, <<>>)
      [] OTHER ->
            IF IsStringLexeme(t) THEN Parsed(PyStr(Unquote(t)), i + 1)
            ELSE IF IsIntLexeme(t) THEN Parsed(PyInt(IntOf(t)), i + 1)
            ELSE ParseError

\* The members of an object from position i (a key is expected there), acc
\* the pairs decoded so far; a repeated key keeps its last value.
JSONObject(toks, i, acc) ==
    IF ~IsStringLexeme(Tok(toks, i)) THEN ParseError
    ELSE
        LET key == Unquote(Tok(toks, i))
            c == SkipWs(toks, i + 1)
        IN  IF Tok(toks, c) # ":" THEN ParseError
            ELSE
                LET r == ScanOnce(toks, SkipWs(toks, c + 1)) IN
                IF ~r.ok THEN ParseError
                ELSE
                    LET acc2 == DictSet(acc, key, r.val)
                        e == SkipWs(toks, r.end)
                    IN  IF Tok(toks, e) = "}" THEN Parsed(PyDict(acc2), e + 1)
                        ELSE IF Tok(toks, e) = ","
                        THEN JSONObject(toks, SkipWs(toks, e + 1), acc2)
                        ELSE ParseError

\* The elements of an array from position i, acc the elements so far.
JSONArray(toks, i, acc) ==
    LET r == ScanOnce(toks, i) IN
    IF ~r.ok THEN ParseError
    ELSE
        LET acc2 == Append(acc, r.val)
            e == SkipWs(toks, r.end)
        IN  IF Tok(toks, e) = "]" THEN Parsed(PyList(acc2), e + 1)
            ELSE IF Tok(toks, e) = ","
            THEN JSONArray(toks, SkipWs(toks, e + 1), acc2)
            ELSE ParseError

\* json.loads(s): one value, surrounded by optional whitespace, and nothing
\* after it; [ok |-> FALSE] stands for json.JSONDecodeError.
JsonLoads(toks) ==
    LET r == ScanOnce(toks, SkipWs(toks, 1)) IN
    IF ~r.ok THEN ParseError
    ELSE IF SkipWs(toks, r.end) # Len(toks) + 1 THEN ParseError
    ELSE Parsed(r.val, r.end)

(***************************************************************************)
(* Text helpers of the protocol.                                           *)
(***************************************************************************)
_CALL_PREFIX == <<"CCOS_CALL", "::">>
_RESULT_PREFIX == <<"CCOS_RESULT", "::">>

\* s.startswith(prefix)
StartsWith(s, prefix) ==
    /\ Len(s) >= Len(prefix)
    /\ SubSeq(s, 1, Len(prefix)) = prefix

\* s.rstrip("\n"): every trailing newline is removed.
RECURSIVE RStripNL(_)
RStripNL(s) ==
    IF s # <<>> /\ s[Len(s)] = NL THEN RStripNL(SubSeq(s, 1, Len(s) - 1)) ELSE s

\* The characters of a text, a newline written as its escape.
RECURSIVE Join(_)
Join(s) ==
    IF s = <<>> THEN ""
    ELSE (IF Head(s) = NL THEN "\\n" ELSE Head(s)) \o Join(Tail(s))

\* repr(s) of a str: no lexeme of the model holds a single quote, so the
\* text is quoted with single quotes.
Repr(s) == "'" \o Join(s) \o "'"

\* Whether the text holds a newline, and the position of the first one.
HasNL(s) == \E i \in 1..Len(s) : s[i] = NL
FirstNL(s) == CHOOSE i \in 1..Len(s) : s[i] = NL /\ \A j \in 1..(i - 1) : s[j] # NL

\* What readline() returns on the unread text of a stream: through the
\* first newline, or all that is left when the stream has been closed
\* (the empty text at end of stream).
ReadLine(unread) ==
    IF HasNL(unread) THEN SubSeq(unread, 1, FirstNL(unread)) ELSE unread

(***************************************************************************)
(* Outcomes of a Python call.                                              *)
(***************************************************************************)
Return(v) == [kind |-> "return", val |-> v]
Raise(exc, msg) == [kind |-> "raise", exc |-> exc, msg |-> msg]

\* The classes raised in the modelled code; all derive from Exception
\* (json.JSONDecodeError through ValueError).
ExceptionSubclasses == {"RuntimeError", "JSONDecodeError", "AttributeError"}

\* type(v).__name__
TypeName(v) ==
    CASE v.k = "None" -> "NoneType"
      [] v.k = "bool" -> "bool"
      [] v.k = "int" -> "int"
      [] v.k = "str" -> "str"
      [] v.k = "list" -> "list"
      [] v.k = "dict" -> "dict"

(***************************************************************************)
(* _call: the request frame, and the outcome from the line read.           *)
(***************************************************************************)
\* The text _call writes to stdout.
RequestFrame(cap, inputs) ==
    _CALL_PREFIX
    \o JsonDumps(PyDict(<<<<"cap", PyStr(cap)>>, <<"inputs", inputs>>>>))
    \o <<NL>>

\* raise RuntimeError: stdin was closed before a result came.
HostClosedError_NoCap(cap) ==
    Raise("RuntimeError", <<"CCOS host closed stdin before returning result">>)

HostClosedError(cap) ==
    Raise("RuntimeError",
          <<"CCOS host closed stdin before returning result for cap '", cap, "'">>)

\* raise RuntimeError: the line does not start with the result prefix.
UnexpectedResponse_NoLine(cap, line) ==
    Raise("RuntimeError",
          <<"Unexpected response from CCOS host (cap '", cap, "'): ", "">>)

UnexpectedResponse(cap, line) ==
    Raise("RuntimeError",
          <<"Unexpected response from CCOS host (cap '", cap, "'): ", Repr(line)>>)

\* raise RuntimeError: the capability failed, with result.get('error', ...).
CapabilityFailed_NoError(cap, result) ==
    Raise("RuntimeError", <<"Capability '", cap, "' failed: ", "unknown error">>)

CapabilityFailed_Exits(cap, result) ==
    Raise("SystemExit",
          <<"Capability '", cap, "' failed: ",
            PyStrOf(DictGet(result.d, "error", PyStr("unknown error")))>>)

CapabilityFailed(cap, result) ==
    Raise("RuntimeError",
          <<"Capability '", cap, "' failed: ",
            PyStrOf(DictGet(result.d, "error", PyStr("unknown error")))>>)

\* The decoding of the payload and the choice on its success field.
DecodeResult_WholeObject(cap, payload) ==
    LET r == JsonLoads(payload) IN
    IF ~r.ok
    THEN Raise("JSONDecodeError", <<"Expecting value">>)
    ELSE IF r.val.k # "dict"
    THEN Raise("AttributeError",
               <<"'", TypeName(r.val), "' object has no attribute 'get'">>)
    ELSE IF Truthy(DictGet(r.val.d, "success", PyNone))
    THEN Return(r.val)
    ELSE CapabilityFailed(cap, r.val)

DecodeResult_ValueRequired(cap, payload) ==
    LET r == JsonLoads(payload) IN
    IF ~r.ok
    THEN Raise("JSONDecodeError", <<"Expecting value">>)
    ELSE IF r.val.k # "dict"
    THEN Raise("AttributeError",
               <<"'", TypeName(r.val), "' object has no attribute 'get'">>)
    ELSE IF Truthy(DictGet(r.val.d, "success", PyNone))
    THEN IF DictHas(r.val.d, "value")
         THEN Return(DictGet(r.val.d, "value", PyNone))
         ELSE Raise("KeyError", <<"'value'">>)
    ELSE CapabilityFailed(cap, r.val)

DecodeResult(cap, payload) ==
    LET r == JsonLoads(payload) IN
    IF ~r.ok
    THEN Raise("JSONDecodeError", <<"Expecting value">>)
    ELSE IF r.val.k # "dict"
    THEN Raise("AttributeError",
               <<"'", TypeName(r.val), "' object has no attribute 'get'">>)
    ELSE IF Truthy(DictGet(r.val.d, "success", PyNone))
    THEN Return(DictGet(r.val.d, "value", PyNone))
    ELSE CapabilityFailed(cap, r.val)

\* _call from the value of result_line on: what it returns or raises.
_call(cap, result_line) ==
    IF result_line = <<>>
    THEN HostClosedError(cap)
    ELSE
        LET line == RStripNL(result_line) IN
        IF ~StartsWith(line, _RESULT_PREFIX)
        THEN UnexpectedResponse(cap, line)
        ELSE DecodeResult(cap, SubSeq(line, Len(_RESULT_PREFIX) + 1, Len(line)))

(***************************************************************************)
(* The operations of the library, from the line their _call reads.         *)
(***************************************************************************)
\* _Memory.get
MemoryGet_IgnoresFound(default, result_line) ==
    LET o == _call("ccos.memory.get", result_line) IN
    IF o.kind = "raise" THEN o
    ELSE IF o.val.k = "dict"
    THEN Return(DictGet(o.val.d, "value", default))
    ELSE Return(default)

MemoryGet_FalsyIsDefault(default, result_line) ==
    LET o == _call("ccos.memory.get", result_line) IN
    IF o.kind = "raise" THEN o
    ELSE IF o.val.k = "dict"
    THEN IF Truthy(DictGet(o.val.d, "found", PyNone))
            /\ Truthy(DictGet(o.val.d, "value", PyNone))
         THEN Return(DictGet(o.val.d, "value", default))
         ELSE Return(default)
    ELSE Return(default)

MemoryGet_DefaultOnFailure(default, result_line) ==
    LET o == _call("ccos.memory.get", result_line) IN
    IF o.kind = "raise" THEN Return(default)
    ELSE IF o.val.k = "dict"
    THEN IF Truthy(DictGet(o.val.d, "found", PyNone))
         THEN Return(DictGet(o.val.d, "value", default))
         ELSE Return(default)
    ELSE Return(default)

MemoryGet_AssumesMapping(default, result_line) ==
    LET o == _call("ccos.memory.get", result_line) IN
    IF o.kind = "raise" THEN o
    ELSE IF o.val.k = "dict"
    THEN IF Truthy(DictGet(o.val.d, "found", PyNone))
         THEN IF DictHas(o.val.d, "value")
              THEN Return(DictGet(o.val.d, "value", default))
              ELSE Raise("KeyError", <<"'value'">>)
         ELSE Return(default)
    ELSE Raise("AttributeError",
               <<"'", TypeName(o.val), "' object has no attribute 'get'">>)

MemoryGet(default, result_line) ==
    LET o == _call("ccos.memory.get", result_line) IN
    IF o.kind = "raise" THEN o
    ELSE IF o.val.k = "dict"
    THEN IF Truthy(DictGet(o.val.d, "found", PyNone))
         THEN Return(DictGet(o.val.d, "value", default))
         ELSE Return(default)
    ELSE Return(default)

\* _Memory.store
MemoryStore_ReturnsValue(result_line) ==
    _call("ccos.memory.store", result_line)

MemoryStore(result_line) ==
    LET o == _call("ccos.memory.store", result_line) IN
    IF o.kind = "raise" THEN o ELSE Return(PyNone)

\* _IO.log: except Exception
IOLog_RuntimeErrorOnly(result_line) ==
    LET o == _call("ccos.io.log", result_line) IN
    IF o.kind = "raise" /\ o.exc # "RuntimeError" THEN o
    ELSE Return(PyNone)

IOLog(result_line) ==
    LET o == _call("ccos.io.log", result_line) IN
    IF o.kind = "raise" /\ o.exc \notin ExceptionSubclasses THEN o
    ELSE Return(PyNone)

\* _CCOS.call and the module-level call
call(capability_id, result_line) == _call(capability_id, result_line)

\* An operation of guest code: the function, the capability it names and
\* the inputs it sends; default is the default of memory.get.
Op(name, cap, inputs, default) ==
    [name |-> name, cap |-> cap, inputs |-> inputs, default |-> default]

OpCall(capability_id, inputs) == Op("call", capability_id, inputs, PyNone)
OpGet(key, default) ==
    Op("memory.get", "ccos.memory.get",
       PyDict(<<<<"key", PyStr(key)>>, <<"default", default>>>>), default)
OpStore(key, value) ==
    Op("memory.store", "ccos.memory.store",
       PyDict(<<<<"key", PyStr(key)>>, <<"value", value>>>>), PyNone)
OpLog(message) ==
    Op("io.log", "ccos.io.log",
       PyDict(<<<<"message", PyStr(PyStrOf(message))>>>>), PyNone)

\* The outcome of an operation given the line its _call read.
OpResult(op, result_line) ==
    CASE op.name = "call" -> call(op.cap, result_line)
      [] op.name = "memory.get" -> MemoryGet(op.default, result_line)
      [] op.name = "memory.store" -> MemoryStore(result_line)
      [] op.name = "io.log" -> IOLog(result_line)

(***************************************************************************)
(* What guest code asks for, and what the host may write.                  *)
(***************************************************************************)
GuestOps ==
    { OpCall("demo.echo", PyDict(<<<<"k", PyInt(42)>>>>)),
      OpGet("k", PyInt(7)),
      OpGet("k", PyNone),
      OpStore("k", PyInt(42)),
      OpLog(PyStr("hello")) }

\* The MemoryGetOutput of ccos.memory.get.
MemoryGetOutput(value, found, expired) ==
    PyDict(<<<<"value", value>>, <<"found", PyBool(found)>>,
             <<"expired", PyBool(expired)>>>>)

Success(value) == PyDict(<<<<"success", PyBool(TRUE)>>, <<"value", value>>>>)
Failure(error) == PyDict(<<<<"success", PyBool(FALSE)>>, <<"error", PyStr(error)>>>>)

\* The CCOS_RESULT objects a host sends in the modelled runs.
HostResponses ==
    { Success(PyInt(42)),
      Success(MemoryGetOutput(PyInt(42), TRUE, FALSE)),
      Success(MemoryGetOutput(PyInt(0), TRUE, FALSE)),
      Success(MemoryGetOutput(PyInt(42), FALSE, TRUE)),
      Success(PyDict(<<<<"found", PyBool(FALSE)>>>>)),
      Success(PyDict(<<<<"found", PyBool(TRUE)>>>>)),
      PyDict(<<<<"success", PyBool(TRUE)>>>>),
      Failure("boom"),
      PyDict(<<<<"success", PyBool(FALSE)>>, <<"value", PyInt(42)>>,
               <<"error", PyStr("boom")>>>>) }

\* The host's encoding of a response object: compact JSON.
HostEncode(v) == Dumps(v, <<",">>, <<":">>)

\* The line the host writes for a response object.
ResultFrame(resp) == _RESULT_PREFIX \o HostEncode(resp) \o <<NL>>

\* Lines that are no response frame: no marker, a payload that is no
\* object, a payload that is no JSON.
MalformedLines ==
    { HostEncode(PyDict(<<<<"success", PyBool(TRUE)>>>>)) \o <<NL>>,
      _RESULT_PREFIX \o HostEncode(PyList(<<PyInt(1)>>)) \o <<NL>>,
      _RESULT_PREFIX \o <<"{", Quote("success"), NL>> }

\* A response frame whose newline has not been written (yet).
PartialWrites == { _RESULT_PREFIX \o HostEncode(Success(PyInt(42))) }

\* Two response frames that reach the pipe in one write.
BurstWrites ==
    { ResultFrame(Failure("boom")) \o ResultFrame(Success(PyInt(42))),
      ResultFrame(Success(MemoryGetOutput(PyInt(42), TRUE, FALSE)))
          \o ResultFrame(Success(MemoryGetOutput(PyInt(0), TRUE, FALSE))) }

HostWrites ==
    { ResultFrame(r) : r \in HostResponses }
        \cup MalformedLines \cup PartialWrites \cup BurstWrites

(***************************************************************************)
(* State.                                                                  *)
(***************************************************************************)
VARIABLES
    pc,           \* where guest code is: "idle", or in _call at "flush" or "read"
    cur,          \* the operation in progress (the last one when idle)
    outBuf,       \* text written to sys.stdout and not yet flushed
    outPipe,      \* text the host can read from the guest's stdout
    stdin,        \* all the text the host has written to the guest's stdin
    rpos,         \* how much of stdin the guest has read
    stdinClosed,  \* the host has closed the guest's stdin
    nwrites,      \* the number of writes of the host
    history       \* the finished operations: operation, line read, outcome

\* The host dispatcher of the guest's session, and what it shows.
VARIABLES
    printed,      \* the ordinary output guest code has written, in order
    hpos,         \* how much of outPipe the dispatcher has read
    hst,          \* the dispatcher: "await" a line, "exec" a capability, "fatal"
    hreqs,        \* the requests the dispatcher has decoded and validated
    hresps,       \* the responses the dispatcher has written
    visible       \* the visible-output buffer

\* Several guest sessions side by side, each with its dispatcher.
VARIABLES
    ms            \* per session: guest, stdout, dispatcher, stdin

sysVars == <<printed, hpos, hst, hreqs, hresps, visible, ms>>

vars ==
    <<pc, cur, outBuf, outPipe, stdin, rpos, stdinClosed, nwrites, history, sysVars>>

Unread == SubSeq(stdin, rpos + 1, Len(stdin))

\* The sessions, and a session at its start: the guest runs, the dispatcher
\* awaits a line, the streams are empty.
Sessions == 1..NumSessions

NewSession ==
    [ gst |-> "run",        \* the guest: "run", or "wait" in readline
      issued |-> 0,         \* the calls the guest has made
      outs |-> 0,           \* the ordinary lines the guest has written
      stdout |-> <<>>,      \* the lines the dispatcher has not read
      hst |-> "await",      \* the dispatcher: "await" or "exec"
      running |-> {},       \* the requests whose capability is executing
      execd |-> <<>>,       \* the requests executed, in order
      stdin |-> <<>>,       \* the responses the guest has not read
      got |-> <<>> ]        \* the responses the guest has read

NoOp == Op("none", "", PyNone, PyNone)

Init ==
    /\ pc = "idle"
    /\ cur = NoOp
    /\ outBuf = <<>>
    /\ outPipe = <<>>
    /\ stdin = <<>>
    /\ rpos = 0
    /\ stdinClosed = FALSE
    /\ nwrites = 0
    /\ history = <<>>
    /\ printed = <<>>
    /\ hpos = 0
    /\ hst = "await"
    /\ hreqs = <<>>
    /\ hresps = <<>>
    /\ visible = <<>>
    /\ ms = [s \in Sessions |-> NewSession]

(***************************************************************************)
(* The guest.                                                              *)
(***************************************************************************)
\* sys.stdout.write(text): the text goes to the buffer of sys.stdout.
StdoutWrite(text) ==
    /\ outBuf' = outBuf \o text
    /\ outPipe' = outPipe

\* sys.stdout.flush()
StdoutFlush ==
    /\ outPipe' = outPipe \o outBuf
    /\ outBuf' = <<>>

\* Guest code starts an operation: _call builds the frame and writes it.
Invoke_Cached(op) ==
    /\ pc = "idle"
    /\ Len(history) < MaxOps
    /\ cur' = op
    /\ IF /\ op.name = "memory.get"
          /\ \E i \in 1..Len(history) :
                 /\ history[i].op.name \in {"memory.get", "memory.store"}
                 /\ history[i].op.inputs.d[1] = op.inputs.d[1]
                 /\ history[i].outcome.kind = "return"
       THEN LET i == CHOOSE i \in 1..Len(history) :
                         /\ history[i].op.name \in {"memory.get", "memory.store"}
                         /\ history[i].op.inputs.d[1] = op.inputs.d[1]
                         /\ history[i].outcome.kind = "return"
                v == IF history[i].op.name = "memory.store"
                     THEN history[i].op.inputs.d[2][2]
                     ELSE history[i].outcome.val
            IN  /\ history' = Append(history,
                                     [op |-> op, line |-> history[i].line,
                                      outcome |-> Return(v)])
                /\ pc' = "idle"
                /\ UNCHANGED <<outBuf, outPipe>>
       ELSE /\ StdoutWrite(RequestFrame(op.cap, op.inputs))
            /\ pc' = "flush"
            /\ UNCHANGED history
    /\ UNCHANGED <<stdin, rpos, stdinClosed, nwrites, sysVars>>

Invoke(op) ==
    /\ pc = "idle"
    /\ Len(history) < MaxOps
    /\ cur' = op
    /\ StdoutWrite(RequestFrame(op.cap, op.inputs))
    /\ pc' = "flush"
    /\ UNCHANGED <<stdin, rpos, stdinClosed, nwrites, history, sysVars>>

\* _call flushes stdout.
Flush_Skipped ==
    /\ pc = "flush"
    /\ pc' = "read"
    /\ UNCHANGED <<cur, outBuf, outPipe, stdin, rpos, stdinClosed, nwrites, history, sysVars>>

Flush_LogFireAndForget ==
    /\ pc = "flush"
    /\ StdoutFlush
    /\ pc' = IF cur.name = "io.log" THEN "idle" ELSE "read"
    /\ UNCHANGED <<cur, stdin, rpos, stdinClosed, nwrites, history, sysVars>>

Flush ==
    /\ pc = "flush"
    /\ StdoutFlush
    /\ pc' = "read"
    /\ UNCHANGED <<cur, stdin, rpos, stdinClosed, nwrites, history, sysVars>>

\* _call reads one line, blocking until there is a newline or the stream is
\* closed, and the operation finishes with what follows from the line.
Read_DrainsStdin ==
    /\ pc = "read"
    /\ (HasNL(Unread) \/ stdinClosed)
    /\ LET result_line == ReadLine(Unread) IN
        /\ rpos' = Len(stdin)
        /\ history' = Append(history,
                             [op |-> cur, line |-> result_line,
                              outcome |-> OpResult(cur, result_line)])
    /\ pc' = "idle"
    /\ UNCHANGED <<cur, outBuf, outPipe, stdin, stdinClosed, nwrites, sysVars>>

Read_TimesOut ==
    /\ pc = "read"
    /\ LET result_line == ReadLine(Unread) IN
        IF HasNL(Unread) \/ stdinClosed
        THEN /\ rpos' = rpos + Len(result_line)
             /\ history' = Append(history,
                                  [op |-> cur, line |-> result_line,
                                   outcome |-> OpResult(cur, result_line)])
        ELSE /\ rpos' = rpos
             /\ history' = Append(history,
                                  [op |-> cur, line |-> <<>>,
                                   outcome |-> Raise("TimeoutError", <<"timed out">>)])
    /\ pc' = "idle"
    /\ UNCHANGED <<cur, outBuf, outPipe, stdin, stdinClosed, nwrites, sysVars>>

Read ==
    /\ pc = "read"
    /\ (HasNL(Unread) \/ stdinClosed)
    /\ LET result_line == ReadLine(Unread) IN
        /\ rpos' = rpos + Len(result_line)
        /\ history' = Append(history,
                             [op |-> cur, line |-> result_line,
                              outcome |-> OpResult(cur, result_line)])
    /\ pc' = "idle"
    /\ UNCHANGED <<cur, outBuf, outPipe, stdin, stdinClosed, nwrites, sysVars>>

(***************************************************************************)
(* The host, seen from the guest: it writes to the guest's stdin and may   *)
(* close it.                                                               *)
(***************************************************************************)
HostWrite(text) ==
    /\ ~stdinClosed
    /\ nwrites < MaxHostWrites
    /\ stdin' = stdin \o text
    /\ nwrites' = nwrites + 1
    /\ UNCHANGED <<pc, cur, outBuf, outPipe, rpos, stdinClosed, history, sysVars>>

HostClose ==
    /\ ~stdinClosed
    /\ stdinClosed' = TRUE
    /\ UNCHANGED <<pc, cur, outBuf, outPipe, stdin, rpos, nwrites, history, sysVars>>

Next ==
    \/ \E op \in GuestOps : Invoke(op)
    \/ Flush
    \/ Read
    \/ \E text \in HostWrites : HostWrite(text)
    \/ HostClose

Spec == Init /\ [][Next]_vars

\* readline has something to return: a whole line, or the end of the stream.
ReadEnabled == pc = "read" /\ (HasNL(Unread) \/ stdinClosed)

\* The guest process runs whenever it is not blocked in readline: weak
\* fairness of Flush and of Read, the latter written out with ReadEnabled,
\* which is the enabling condition of Read.
FairSpec ==
    Spec /\ WF_vars(Flush) /\ ([]<>(~ReadEnabled) \/ []<><<Read>>_vars)

(***************************************************************************)
(* The guest's own output, next to the operations of the library.          *)
(***************************************************************************)
\* What guest code writes to stdout itself: a line, a text that does not end
\* its line, and a line that starts with the call marker and is no frame.
GuestTexts ==
    { <<"hello", NL>>,
      <<"abc">>,
      <<"CCOS_CALL", "::", "{", NL>> }

\* The operations guest code makes under the dispatcher: a capability the
\* registry does not know, one it knows, and a log.
SysOps ==
    { OpCall("demo.echo", PyDict(<<<<"k", PyInt(42)>>>>)),
      OpGet("k", PyInt(7)),
      OpLog(PyStr("hello")) }

\* print(...) or sys.stdout.write(...) in guest code, between operations.
\* The host starts the guest with PYTHONUNBUFFERED=1: the text reaches the
\* pipe as it is written.
GuestOutput(text) ==
    /\ pc = "idle"
    /\ Len(printed) < MaxPrints
    /\ outPipe' = outPipe \o outBuf \o text
    /\ outBuf' = <<>>
    /\ printed' = Append(printed, text)
    /\ UNCHANGED <<pc, cur, stdin, rpos, stdinClosed, nwrites, history,
                   hpos, hst, hreqs, hresps, visible, ms>>

(***************************************************************************)
(* The host dispatcher of one guest session.                               *)
(***************************************************************************)
\* What the dispatcher has not read of the guest's stdout, and its next line.
HostUnread == SubSeq(outPipe, hpos + 1, Len(outPipe))
HostLine == ReadLine(HostUnread)

IsControlFrame(line) == StartsWith(line, _CALL_PREFIX)

\* The payload of a control frame, decoded; a request has a string cap and
\* a mapping inputs.
DecodeRequest(line) ==
    JsonLoads(SubSeq(RStripNL(line), Len(_CALL_PREFIX) + 1, Len(RStripNL(line))))

IsRequest(r) ==
    /\ r.ok
    /\ r.val.k = "dict"
    /\ DictHas(r.val.d, "cap") /\ DictGet(r.val.d, "cap", PyNone).k = "str"
    /\ DictHas(r.val.d, "inputs") /\ DictGet(r.val.d, "inputs", PyNone).k = "dict"

\* The capability registry: execute(capability_id, inputs) gives a value or
\* a message.
Ok(value) == [ok |-> TRUE, value |-> value]
Err(message) == [ok |-> FALSE, message |-> message]

RegistryCaps == {"ccos.memory.get", "ccos.memory.store", "ccos.io.log"}

Execute(capability_id, inputs) ==
    IF capability_id \notin RegistryCaps THEN {Err("unknown capability")}
    ELSE IF capability_id = "ccos.memory.get"
    THEN { Ok(MemoryGetOutput(PyInt(42), TRUE, FALSE)),
           Ok(MemoryGetOutput(DictGet(inputs.d, "default", PyNone), FALSE, FALSE)),
           Err("boom") }
    ELSE { Ok(PyNone), Err("boom") }

\* The response object of a result.
ResponseOf(result) ==
    IF result.ok THEN Success(result.value) ELSE Failure(result.message)

\* EmitOutput: a line without the call marker is appended to the visible
\* output as it is.
HostEmitOutput ==
    /\ hst = "await"
    /\ HasNL(HostUnread)
    /\ ~IsControlFrame(HostLine)
    /\ hpos' = hpos + Len(HostLine)
    /\ visible' = visible \o HostLine
    /\ UNCHANGED <<pc, cur, outBuf, outPipe, stdin, rpos, stdinClosed, nwrites,
                   history, printed, hst, hreqs, hresps, ms>>

\* Dispatch: a line with the call marker is a control frame and is not
\* shown; a payload that is no request ends the session, whose stdin the
\* host closes.
HostDispatch_ShowsFrame ==
    /\ hst = "await"
    /\ HasNL(HostUnread)
    /\ IsControlFrame(HostLine)
    /\ hpos' = hpos + Len(HostLine)
    /\ visible' = visible \o HostLine
    /\ LET r == DecodeRequest(HostLine) IN
         IF IsRequest(r)
         THEN /\ hreqs' = Append(hreqs, r.val)
              /\ hst' = "exec"
              /\ UNCHANGED stdinClosed
         ELSE /\ hst' = "fatal"
              /\ stdinClosed' = TRUE
              /\ UNCHANGED hreqs
    /\ UNCHANGED <<pc, cur, outBuf, outPipe, stdin, rpos, nwrites, history,
                   printed, hresps, ms>>

HostDispatch ==
    /\ hst = "await"
    /\ HasNL(HostUnread)
    /\ IsControlFrame(HostLine)
    /\ hpos' = hpos + Len(HostLine)
    /\ LET r == DecodeRequest(HostLine) IN
         IF IsRequest(r)
         THEN /\ hreqs' = Append(hreqs, r.val)
              /\ hst' = "exec"
              /\ UNCHANGED stdinClosed
         ELSE /\ hst' = "fatal"
              /\ stdinClosed' = TRUE
              /\ UNCHANGED hreqs
    /\ UNCHANGED <<pc, cur, outBuf, outPipe, stdin, rpos, nwrites, history,
                   printed, hresps, visible, ms>>

\* ExecuteCapability and RespondAndIdle: the capability of the request is
\* executed, its result is written as one response line, and the dispatcher
\* reads on.
HostRespond_StaysInExec ==
    /\ hst = "exec"
    /\ Len(hresps) <= Len(hreqs)
    /\ LET req == hreqs[Len(hreqs)] IN
         \E result \in Execute(DictGet(req.d, "cap", PyNone).s,
                               DictGet(req.d, "inputs", PyNone)) :
             /\ stdin' = stdin \o ResultFrame(ResponseOf(result))
             /\ hresps' = Append(hresps, ResponseOf(result))
    /\ hst' \in {"await", "exec"}
    /\ UNCHANGED <<pc, cur, outBuf, outPipe, rpos, stdinClosed, nwrites, history,
                   printed, hpos, hreqs, visible, ms>>

HostRespond ==
    /\ hst = "exec"
    /\ LET req == hreqs[Len(hreqs)] IN
         \E result \in Execute(DictGet(req.d, "cap", PyNone).s,
                               DictGet(req.d, "inputs", PyNone)) :
             /\ stdin' = stdin \o ResultFrame(ResponseOf(result))
             /\ hresps' = Append(hresps, ResponseOf(result))
    /\ hst' = "await"
    /\ UNCHANGED <<pc, cur, outBuf, outPipe, rpos, stdinClosed, nwrites, history,
                   printed, hpos, hreqs, visible, ms>>

\* The guest and the dispatcher of its session, together.
SysNext ==
    \/ \E op \in SysOps : Invoke(op)
    \/ Flush
    \/ Read
    \/ \E text \in GuestTexts : GuestOutput(text)
    \/ HostEmitOutput
    \/ HostDispatch
    \/ HostRespond

SysSpec == Init /\ [][SysNext]_vars

(***************************************************************************)
(* Several sessions: in each, a guest that calls and waits, and the        *)
(* dispatcher of that guest; the lines are reduced to what they are.       *)
(***************************************************************************)
CallLine(s, n) == [t |-> "call", s |-> s, n |-> n]
OutLine == [t |-> "out"]
ResponseTo(req) == [s |-> req.s, n |-> req.n]

guestVars ==
    <<pc, cur, outBuf, outPipe, stdin, rpos, stdinClosed, nwrites, history,
      printed, hpos, hst, hreqs, hresps, visible>>

\* _call in the guest of session s: the frame is written and flushed, and
\* the guest waits in readline.
SessionCall(s) ==
    /\ ms[s].gst = "run"
    /\ ms[s].issued < MaxOps
    /\ ms' = [ms EXCEPT ![s].gst = "wait",
                        ![s].issued = @ + 1,
                        ![s].stdout = Append(@, CallLine(s, ms[s].issued + 1))]
    /\ UNCHANGED guestVars

\* Ordinary output of the guest of session s.
SessionOutput(s) ==
    /\ ms[s].gst = "run"
    /\ ms[s].outs < MaxPrints
    /\ ms' = [ms EXCEPT ![s].outs = @ + 1,
                        ![s].stdout = Append(@, OutLine)]
    /\ UNCHANGED guestVars

\* readline in the guest of session s returns the next response.
SessionRead(s) ==
    /\ ms[s].gst = "wait"
    /\ ms[s].stdin # <<>>
    /\ ms' = [ms EXCEPT ![s].gst = "run",
                        ![s].got = Append(@, Head(ms[s].stdin)),
                        ![s].stdin = Tail(@)]
    /\ UNCHANGED guestVars

\* The dispatcher of session s: EmitOutput.
SessionEmitOutput(s) ==
    /\ ms[s].hst = "await"
    /\ ms[s].stdout # <<>>
    /\ Head(ms[s].stdout).t = "out"
    /\ ms' = [ms EXCEPT ![s].stdout = Tail(@)]
    /\ UNCHANGED guestVars

\* The dispatcher of session s: Dispatch, the capability starts executing.
SessionDispatch(s) ==
    /\ ms[s].hst = "await"
    /\ ms[s].stdout # <<>>
    /\ Head(ms[s].stdout).t = "call"
    /\ ms' = [ms EXCEPT ![s].hst = "exec",
                        ![s].running = @ \cup {Head(ms[s].stdout)},
                        ![s].execd = Append(@, Head(ms[s].stdout).n),
                        ![s].stdout = Tail(@)]
    /\ UNCHANGED guestVars

\* The dispatcher of session s: the execution ends and its response is
\* written to the stdin of the guest of the session.
SessionRespond_AnySession(s) ==
    /\ ms[s].hst = "exec"
    /\ \E req \in ms[s].running : \E to \in Sessions :
           ms' = [ms EXCEPT ![s].hst = "await",
                            ![s].running = @ \ {req},
                            ![to].stdin = Append(@, ResponseTo(req))]
    /\ UNCHANGED guestVars

SessionRespond(s) ==
    /\ ms[s].hst = "exec"
    /\ \E req \in ms[s].running :
           ms' = [ms EXCEPT ![s].hst = "await",
                            ![s].running = @ \ {req},
                            ![s].stdin = Append(@, ResponseTo(req))]
    /\ UNCHANGED guestVars

MultiNext ==
    \E s \in Sessions :
        \/ SessionCall(s)
        \/ SessionOutput(s)
        \/ SessionRead(s)
        \/ SessionEmitOutput(s)
        \/ SessionDispatch(s)
        \/ SessionRespond(s)

MultiSpec == Init /\ [][MultiNext]_vars

(***************************************************************************)
(* Vocabulary of the properties.                                           *)
(***************************************************************************)
Done == 1..Len(history)

\* The complete lines of a text that begin with the call marker.
RECURSIVE CallFrames(_)
CallFrames(text) ==
    IF ~HasNL(text) THEN 0
    ELSE (IF Len(text) >= 2 /\ text[1] = "CCOS_CALL" /\ text[2] = "::" THEN 1 ELSE 0)
         + CallFrames(SubSeq(text, FirstNL(text) + 1, Len(text)))

\* Request frames written to stdout so far.
FramesWritten == CallFrames(outPipe \o outBuf)

\* The k-th line of a text: through its newline, or what is left after the
\* last newline; empty when the text has no k-th line.
RECURSIVE NthLine(_, _)
NthLine(text, k) ==
    IF k = 1 THEN (IF HasNL(text) THEN SubSeq(text, 1, FirstNL(text)) ELSE text)
    ELSE IF HasNL(text)
    THEN NthLine(SubSeq(text, FirstNL(text) + 1, Len(text)), k - 1)
    ELSE <<>>

\* Operations that found the stream at its end, and lines taken from stdin.
EOFReads == Cardinality({i \in Done : history[i].line = <<>>})
LinesConsumed == Cardinality({i \in Done : history[i].line # <<>>})

\* The line is the response frame of resp, with or without its newline; the
\* frames of the modelled responses are encoded once.
EncodedResponses ==
    [resp \in HostResponses |-> _RESULT_PREFIX \o HostEncode(resp)]

IsFrameOf(line, resp) ==
    LET frame == IF resp \in HostResponses
                 THEN EncodedResponses[resp]
                 ELSE _RESULT_PREFIX \o HostEncode(resp)
    IN  \/ line = frame \o <<NL>>
        \/ line = frame

\* The field of a response object, by position.
HasField(resp, name) == \E i \in 1..Len(resp.d) : resp.d[i][1] = name
Field(resp, name) == resp.d[CHOOSE i \in 1..Len(resp.d) : resp.d[i][1] = name][2]

\* The three failures of _call, told apart by their message.
IsCapabilityError(o, cap) ==
    /\ o.kind = "raise"
    /\ o.exc = "RuntimeError"
    /\ Len(o.msg) = 4
    /\ o.msg[1] = "Capability '"
    /\ o.msg[2] = cap
    /\ o.msg[3] = "' failed: "

IsHostDisconnected(o, cap) ==
    /\ o.kind = "raise"
    /\ o.exc = "RuntimeError"
    /\ o.msg = <<"CCOS host closed stdin before returning result for cap '", cap, "'">>

IsProtocolViolation(o, cap) ==
    /\ o.kind = "raise"
    /\ o.exc = "RuntimeError"
    /\ Len(o.msg) = 4
    /\ o.msg[1] = "Unexpected response from CCOS host (cap '"
    /\ o.msg[2] = cap
    /\ o.msg[3] = "'): "

(***************************************************************************)
(* Properties.                                                             *)
(***************************************************************************)

\* C1: when the line call reads is a response frame whose success field is
\* true, call returns exactly the value the host put in the value field,
\* whatever the capability and the inputs.
C1_CallReturnsValue ==
    \A i \in Done : \A resp \in HostResponses :
        ( /\ history[i].op.name = "call"
          /\ HasField(resp, "success") /\ Field(resp, "success") = PyBool(TRUE)
          /\ HasField(resp, "value")
          /\ IsFrameOf(history[i].line, resp) )
        => history[i].outcome = Return(Field(resp, "value"))

C1_Witness ==
    \E i \in Done :
        /\ history[i].op.name = "call"
        /\ history[i].line =
               ResultFrame(Success(MemoryGetOutput(PyInt(42), TRUE, FALSE)))
        /\ history[i].outcome = Return(MemoryGetOutput(PyInt(42), TRUE, FALSE))

\* C2: when the response frame has success false, the operation returns no
\* value: it fails with the capability error, whose message ends with the
\* host's error string unchanged.
C2_FailureCarriesError ==
    \A i \in Done : \A resp \in HostResponses :
        ( /\ history[i].op.name # "io.log"
          /\ HasField(resp, "success") /\ Field(resp, "success") = PyBool(FALSE)
          /\ HasField(resp, "error")
          /\ IsFrameOf(history[i].line, resp) )
        => /\ IsCapabilityError(history[i].outcome, history[i].op.cap)
           /\ history[i].outcome.msg[4] = Field(resp, "error").s

C2_Witness ==
    \E i \in Done :
        /\ history[i].op.name = "call"
        /\ history[i].line = ResultFrame(Failure("boom"))
        /\ history[i].outcome.kind = "raise"
        /\ history[i].outcome.msg[4] = "boom"

C4_NoMarkerIsViolation ==
    \A i \in Done :
        LET line == history[i].line
            text == IF line[Len(line)] = NL THEN SubSeq(line, 1, Len(line) - 1) ELSE line
        IN  ( /\ history[i].op.name # "io.log"
              /\ line # <<>>
              /\ (Len(line) < 2 \/ line[1] # "CCOS_RESULT" \/ line[2] # "::") )
            => /\ IsProtocolViolation(history[i].outcome, history[i].op.cap)
               /\ history[i].outcome.msg[4] = "'" \o Join(text) \o "'"

C4_Witness ==
    \E i \in Done :
        /\ history[i].op.name = "call"
        /\ history[i].line = HostEncode(PyDict(<<<<"success", PyBool(TRUE)>>>>)) \o <<NL>>
        /\ history[i].outcome.kind = "raise"
        /\ history[i].outcome.msg[4] = "'{\"success\":true}'"

\* C5 as stated: every finished operation has written exactly one request
\* frame and has consumed exactly one line of stdin, also when it failed.
C5_EveryOperationConsumesALine ==
    /\ FramesWritten = Len(history) + (IF pc = "idle" THEN 0 ELSE 1)
    /\ \A k \in Done : history[k].line # <<>>

\* C5, amended: every operation writes exactly one request frame and reads
\* once; the k-th operation reads the k-th line the host wrote, or nothing
\* when the stream has ended before a k-th line, and its outcome is the one
\* that line determines; no line is read twice or skipped.
C5_StrictStreamOrder ==
    /\ FramesWritten = Len(history) + (IF pc = "idle" THEN 0 ELSE 1)
    /\ \A k \in Done :
        LET kth == NthLine(stdin, k) IN
        /\ history[k].line = kth
        /\ kth = <<>> => stdinClosed
        /\ history[k].outcome = OpResult(history[k].op, kth)
    /\ rpos = Len(stdin) \/ NthLine(Unread, 1) = NthLine(stdin, Len(history) + 1)

C5_Witness ==
    /\ Len(history) = 2
    /\ history[1].line = ResultFrame(Failure("boom"))
    /\ history[1].outcome.kind = "raise"
    /\ history[2].line = ResultFrame(Success(PyInt(42)))
    /\ history[2].outcome.kind = "return"

\* C6 as stated: request frames written minus response lines consumed is 0
\* or 1 in every state.
C6_FramesMinusLines == FramesWritten - LinesConsumed \in {0, 1}

\* C6, amended: at most one request is outstanding when a read that found
\* the stream at its end counts as the answer to its request: request
\* frames written, minus lines consumed and end-of-stream reads, is 0 or 1,
\* and it is 1 exactly while an operation is in progress.
C6_OneOutstanding ==
    LET outstanding == FramesWritten - (LinesConsumed + EOFReads) IN
    /\ outstanding \in {0, 1}
    /\ outstanding = 1 <=> pc # "idle"

C6_Witness ==
    /\ Len(history) = 1
    /\ history[1].line = <<>>
    /\ history[1].outcome.kind = "raise"
    /\ pc = "read"
    /\ FramesWritten = 2

\* C7: while the guest is in readline, its whole request frame (marker,
\* JSON of the request, newline) is in the pipe to the host and nothing of
\* it is left in the buffer of stdout.
C7_FlushedBeforeRead ==
    pc = "read" =>
        LET frame == RequestFrame(cur.cap, cur.inputs)
            n == Len(outPipe)
            sent == SubSeq(outPipe, n - Len(frame) + 1, n)
        IN  /\ outBuf = <<>>
            /\ n >= Len(frame)
            /\ sent = frame
            /\ sent[1] = "CCOS_CALL" /\ sent[2] = "::" /\ sent[Len(sent)] = NL
            /\ JsonLoads(SubSeq(sent, 3, Len(sent) - 1))
                   = Parsed(PyDict(<<<<"cap", PyStr(cur.cap)>>, <<"inputs", cur.inputs>>>>),
                            Len(sent) - 2)

C7_Witness ==
    /\ pc = "read"
    /\ cur.name = "memory.get"
    /\ outBuf = <<>>
    /\ outPipe = RequestFrame("ccos.memory.get", cur.inputs)

\* C8: memory.get returns the default whenever the successful response
\* reports found false, whatever the value field holds and whatever the
\* expired flag says.
C8_NotFoundGivesDefault ==
    \A i \in Done : \A resp \in HostResponses :
        ( /\ history[i].op.name = "memory.get"
          /\ HasField(resp, "success") /\ Field(resp, "success") = PyBool(TRUE)
          /\ HasField(resp, "value") /\ Field(resp, "value").k = "dict"
          /\ HasField(Field(resp, "value"), "found")
          /\ Field(Field(resp, "value"), "found") = PyBool(FALSE)
          /\ IsFrameOf(history[i].line, resp) )
        => history[i].outcome = Return(history[i].op.default)

C8_Witness ==
    \E i \in Done :
        /\ history[i].op = OpGet("k", PyInt(7))
        /\ history[i].line = ResultFrame(Success(MemoryGetOutput(PyInt(42), FALSE, TRUE)))
        /\ history[i].outcome = Return(PyInt(7))

\* C9: memory.get returns the value of the value field, not the default,
\* whenever the successful response reports found true, also for a falsy
\* stored value and for every default.
C9_FoundGivesValue ==
    \A i \in Done : \A resp \in HostResponses :
        ( /\ history[i].op.name = "memory.get"
          /\ HasField(resp, "success") /\ Field(resp, "success") = PyBool(TRUE)
          /\ HasField(resp, "value") /\ Field(resp, "value").k = "dict"
          /\ HasField(Field(resp, "value"), "found")
          /\ Field(Field(resp, "value"), "found") = PyBool(TRUE)
          /\ HasField(Field(resp, "value"), "value")
          /\ IsFrameOf(history[i].line, resp) )
        => history[i].outcome = Return(Field(Field(resp, "value"), "value"))

C9_Witness ==
    \E i \in Done :
        /\ history[i].op = OpGet("k", PyInt(7))
        /\ history[i].line = ResultFrame(Success(MemoryGetOutput(PyInt(0), TRUE, FALSE)))
        /\ history[i].outcome = Return(PyInt(0))

\* C10: io.log returns normally whatever it reads: a success, a failure, a
\* line without the marker, a payload that does not decode, or the end of
\* a closed stdin.
C10_LogNeverRaises ==
    \A i \in Done :
        history[i].op.name = "io.log" => history[i].outcome = Return(PyNone)

C10_Witness ==
    /\ Len(history) = 2
    /\ history[1].op.name = "io.log"
    /\ history[1].line = _RESULT_PREFIX \o <<"{", Quote("success"), NL>>
    /\ history[2].op.name = "io.log"
    /\ history[2].line = <<>>
    /\ history[2].outcome.kind = "return"

\* C11: memory.store(key, value) writes one ccos.memory.store request
\* whose inputs are {key, value}; it returns None whatever value a
\* successful response carries, and where call on the same capability and
\* line raises, it raises the same error.
C11_StoreLikeCall ==
    \A i \in Done :
        history[i].op.name = "memory.store" =>
            LET op == history[i].op
                asCall == call("ccos.memory.store", history[i].line)
            IN  /\ op.cap = "ccos.memory.store"
                /\ Len(op.inputs.d) = 2
                /\ op.inputs.d[1][1] = "key" /\ op.inputs.d[2][1] = "value"
                /\ NthLine(outPipe \o outBuf, i)
                       = <<"CCOS_CALL", "::">>
                         \o JsonDumps(PyDict(<<<<"cap", PyStr("ccos.memory.store")>>,
                                               <<"inputs", op.inputs>>>>))
                         \o <<NL>>
                /\ asCall.kind = "raise" => history[i].outcome = asCall
                /\ asCall.kind = "return" => history[i].outcome = Return(PyNone)
                /\ \A resp \in HostResponses :
                       ( /\ HasField(resp, "success")
                         /\ Field(resp, "success") = PyBool(TRUE)
                         /\ IsFrameOf(history[i].line, resp) )
                       => history[i].outcome = Return(PyNone)

C11_Witness ==
    \E i \in Done :
        /\ history[i].op = OpStore("k", PyInt(42))
        /\ history[i].line = ResultFrame(Success(PyInt(42)))
        /\ history[i].outcome = Return(PyNone)
        /\ NthLine(outPipe, i)
               = <<"CCOS_CALL", "::", "{", "\"cap\"", ":", " ", "\"ccos.memory.store\"",
                   ",", " ", "\"inputs\"", ":", " ", "{", "\"key\"", ":", " ", "\"k\"",
                   ",", " ", "\"value\"", ":", " ", "42", "}", "}", "\n">>

\* The complete lines of a text that do not begin with the call marker, in
\* their order.
RECURSIVE OrdinaryLines(_)
OrdinaryLines(text) ==
    IF ~HasNL(text) THEN <<>>
    ELSE LET line == SubSeq(text, 1, FirstNL(text)) IN
         (IF IsControlFrame(line) THEN <<>> ELSE line)
         \o OrdinaryLines(SubSeq(text, FirstNL(text) + 1, Len(text)))

\* The texts of a sequence, one after the other.
RECURSIVE Concat(_)
Concat(texts) ==
    IF texts = <<>> THEN <<>> ELSE texts[1] \o Concat(SubSeq(texts, 2, Len(texts)))

\* C12: the visible output is the lines the dispatcher has read that do not
\* begin with the call marker, as written and in their order, and no line of
\* it begins with the call marker; when guest code writes whole ordinary
\* lines only, the visible output is a prefix of what it wrote, and all of
\* it once the dispatcher has read everything.
C12_VisibleIsOrdinaryOutput ==
    /\ visible = OrdinaryLines(SubSeq(outPipe, 1, hpos))
    /\ CallFrames(visible) = 0
    /\ (\A i \in 1..Len(printed) : printed[i] = <<"hello", NL>>)
       => /\ StartsWith(Concat(printed), visible)
          /\ (outBuf = <<>> /\ hpos = Len(outPipe)) => visible = Concat(printed)

C12_Witness ==
    /\ printed = << <<"hello", NL>>, <<"hello", NL>> >>
    /\ Len(hreqs) = 1
    /\ Len(history) = 1
    /\ visible = <<"hello", NL, "hello", NL>>
    /\ CallFrames(outPipe) = 1

\* The complete lines of a text that are control frames with a valid
\* request.
RECURSIVE ValidFrames(_)
ValidFrames(text) ==
    IF ~HasNL(text) THEN 0
    ELSE LET line == SubSeq(text, 1, FirstNL(text)) IN
         (IF IsControlFrame(line) /\ IsRequest(DecodeRequest(line)) THEN 1 ELSE 0)
         + ValidFrames(SubSeq(text, FirstNL(text) + 1, Len(text)))

\* The lines of the responses, one after the other.
RECURSIVE ResponseLines(_)
ResponseLines(resps) ==
    IF resps = <<>> THEN <<>>
    ELSE ResultFrame(resps[1]) \o ResponseLines(SubSeq(resps, 2, Len(resps)))

\* C13: the dispatcher has validated as many requests as there are valid
\* control frames among the lines it has read; it has written one response
\* for each of them, but for the one it is executing, and never more
\* responses than requests; the guest's stdin holds the lines of these
\* responses, each complete, and nothing else.
C13_OneResponsePerFrame ==
    /\ Len(hreqs) = ValidFrames(SubSeq(outPipe, 1, hpos))
    /\ Len(hresps) <= Len(hreqs)
    /\ Len(hresps) = (IF hst = "exec" THEN Len(hreqs) - 1 ELSE Len(hreqs))
    /\ stdin = ResponseLines(hresps)
    /\ stdin # <<>> => stdin[Len(stdin)] = NL

C13_Witness ==
    /\ Len(hreqs) = 2
    /\ Len(hresps) = 2
    /\ visible # <<>>
    /\ hst = "fatal"

\* C14: a request for a capability the registry does not know is answered
\* with success false and a message, as is every failed execution; the
\* host closes the guest's stdin only on a control frame that holds no
\* request, so it serves the frames after a failure as before; an operation
\* that reads the line of a failure raises the error of a failed capability
\* with the message of the response (io.log returns None).
C14_FailureKeepsSession ==
    /\ \A j \in 1..Len(hresps) :
           /\ DictGet(hreqs[j].d, "cap", PyNone).s \notin RegistryCaps
                  => hresps[j] = Failure("unknown capability")
           /\ Field(hresps[j], "success") = PyBool(FALSE)
                  => /\ HasField(hresps[j], "error")
                     /\ Field(hresps[j], "error").k = "str"
                     /\ NthLine(stdin, j) = ResultFrame(hresps[j])
    /\ stdinClosed <=> hst = "fatal"
    /\ hst = "fatal" => ValidFrames(SubSeq(outPipe, 1, hpos))
                            < CallFrames(SubSeq(outPipe, 1, hpos))
    /\ \A i \in Done :
           LET resp == hresps[i]
               o == history[i].outcome
           IN  ( /\ history[i].line # <<>>
                 /\ Field(resp, "success") = PyBool(FALSE) )
               => /\ history[i].line = ResultFrame(resp)
                  /\ IF history[i].op.name = "io.log" THEN o = Return(PyNone)
                     ELSE /\ IsCapabilityError(o, history[i].op.cap)
                          /\ o.msg[4] = Field(resp, "error").s

C14_Witness ==
    /\ Len(hresps) = 2
    /\ hresps[1] = Failure("unknown capability")
    /\ Len(history) = 2
    /\ IsCapabilityError(history[1].outcome, "demo.echo")
    /\ history[1].outcome.msg[4] = "unknown capability"
    /\ hresps[2] = Failure("boom")
    /\ IsCapabilityError(history[2].outcome, "ccos.memory.get")
    /\ ~stdinClosed

\* The operations guest code has started.
Started == Len(history) + (IF pc = "idle" THEN 0 ELSE 1)

\* C16: whatever guest code wrote to stdout before, the frame of every
\* started operation is a line of its own: stdout has as many lines that
\* begin with the call marker and hold one request after it as operations
\* were started.
C16_FrameOnItsOwnLine ==
    ValidFrames(outPipe \o outBuf) = Started

\* C15: the guest and the dispatcher never wait on each other: while an
\* operation waits in readline, its line is there or stdin is closed, or
\* the dispatcher is executing a capability, or the dispatcher has a line of
\* the guest's stdout to read.
C15_NeverWaitOnEachOther ==
    pc = "read" => \/ ReadEnabled
                   \/ hst = "exec"
                   \/ (hst = "await" /\ HasNL(HostUnread))

\* C17: call, memory.get and memory.store fail with the RuntimeError of
\* _call only, of one of its three kinds; on a line that begins with the
\* response marker and whose payload is no JSON object, they fail with the
\* kind that names the response as unexpected.
C17_UniformFailure ==
    \A i \in Done :
        LET op == history[i].op
            o == history[i].outcome
            line == RStripNL(history[i].line)
            payload == JsonLoads(SubSeq(line, Len(_RESULT_PREFIX) + 1, Len(line)))
        IN  op.name # "io.log" =>
              /\ o.kind = "raise" =>
                     \/ IsHostDisconnected(o, op.cap)
                     \/ IsProtocolViolation(o, op.cap)
                     \/ IsCapabilityError(o, op.cap)
              /\ ( /\ StartsWith(line, _RESULT_PREFIX)
                   /\ (~payload.ok \/ payload.val.k # "dict") )
                 => IsProtocolViolation(o, op.cap)

RequestFrames == [op \in GuestOps |-> RequestFrame(op.cap, op.inputs)]

\* C20: every operation started, a memory.get of a key just stored or just
\* read among them, has written the request frame of its own arguments, as
\* one more line of stdout; two finished operations with the same arguments
\* that read the same line have the same outcome, whatever happened before
\* them.
C20_NoStateBetweenOperations ==
    LET out == outPipe \o outBuf IN
    /\ FramesWritten = Started
    /\ \A i \in Done : NthLine(out, i) = RequestFrames[history[i].op]
    /\ pc # "idle" => NthLine(out, Started) = RequestFrames[cur]
    /\ \A i, j \in Done :
           (history[i].op = history[j].op /\ history[i].line = history[j].line)
               => history[i].outcome = history[j].outcome

C20_Witness ==
    /\ Len(history) = 2
    /\ history[1].op = OpGet("k", PyInt(7))
    /\ history[1].outcome = Return(PyInt(42))
    /\ history[2].op = OpGet("k", PyInt(7))
    /\ history[2].line = ResultFrame(Success(MemoryGetOutput(PyInt(0), TRUE, FALSE)))
    /\ history[2].outcome = Return(PyInt(0))
    /\ FramesWritten = 2

\* C19: in every session at most one request is executing, and one is
\* exactly while the dispatcher of the session is in its execution; the
\* requests of a session are executed in the order its guest made them; the
\* responses on the stdin of a session answer the requests of that session,
\* in their order; all this whatever the other sessions do.
C19_SessionsSerialized ==
    \A s \in Sessions :
        /\ Cardinality(ms[s].running) <= 1
        /\ (ms[s].hst = "exec") <=> (ms[s].running # {})
        /\ \A req \in ms[s].running : req = CallLine(s, Len(ms[s].execd))
        /\ \A i \in 1..Len(ms[s].execd) : ms[s].execd[i] = i
        /\ Len(ms[s].execd) <= ms[s].issued
        /\ LET resps == ms[s].got \o ms[s].stdin IN
           \A i \in 1..Len(resps) : resps[i] = ResponseTo(CallLine(s, i))

C19_Witness ==
    /\ ms[1].hst = "exec"
    /\ ms[2].hst = "exec"
    /\ Len(ms[1].got) = 1
    /\ Len(ms[2].got) = 1
    /\ ms[1].outs > 0

\* C21: when the line call reads is a response frame with success true and
\* no value field, call returns None; when it is a response frame with
\* success false, call raises the error of a failed capability, with a
\* value field in the frame as without.
C21_AbsentValueAndFailure ==
    \A i \in Done :
        history[i].op.name = "call" =>
            \A resp \in HostResponses :
                /\ ( /\ Field(resp, "success") = PyBool(TRUE)
                     /\ ~HasField(resp, "value")
                     /\ IsFrameOf(history[i].line, resp) )
                   => history[i].outcome = Return(PyNone)
                /\ ( /\ Field(resp, "success") = PyBool(FALSE)
                     /\ IsFrameOf(history[i].line, resp) )
                   => IsCapabilityError(history[i].outcome, history[i].op.cap)

C21_Witness ==
    \E i \in Done :
        /\ history[i].op.name = "call"
        /\ history[i].line = ResultFrame(PyDict(<<<<"success", PyBool(TRUE)>>>>))
        /\ history[i].outcome = Return(PyNone)

\* C22: memory.get raises what its call raises and returns no default then:
\* the error of a closed stdin when it read the end of the stream, the
\* error of an unexpected response when the line has no response marker,
\* the error of a failed capability when the line is a response frame with
\* success false.
C22_GetPropagatesFailure ==
    \A i \in Done :
        history[i].op.name = "memory.get" =>
            LET op == history[i].op
                o == history[i].outcome
                line == history[i].line
                asCall == call(op.cap, line)
            IN  /\ asCall.kind = "raise" => o = asCall
                /\ line = <<>> => IsHostDisconnected(o, "ccos.memory.get")
                /\ (line # <<>> /\ ~StartsWith(line, _RESULT_PREFIX))
                       => IsProtocolViolation(o, "ccos.memory.get")
                /\ \A resp \in HostResponses :
                       ( /\ Field(resp, "success") = PyBool(FALSE)
                         /\ IsFrameOf(line, resp) )
                       => IsCapabilityError(o, "ccos.memory.get")

C22_Witness ==
    /\ Len(history) = 2
    /\ history[1].op = OpGet("k", PyInt(7))
    /\ history[1].line = ResultFrame(Failure("boom"))
    /\ IsCapabilityError(history[1].outcome, "ccos.memory.get")
    /\ history[2].op = OpGet("k", PyInt(7))
    /\ history[2].line = <<>>
    /\ IsHostDisconnected(history[2].outcome, "ccos.memory.get")

\* C23: when the line memory.get reads is a response frame with success
\* true whose value is no mapping (a number, or None for a missing value
\* field), or a mapping with found true and no value field, memory.get
\* returns its default.
C23_OddValueGivesDefault ==
    \A i \in Done :
        history[i].op.name = "memory.get" =>
            \A resp \in HostResponses :
                LET value == IF HasField(resp, "value")
                             THEN Field(resp, "value") ELSE PyNone
                IN  ( /\ Field(resp, "success") = PyBool(TRUE)
                      /\ \/ value.k # "dict"
                         \/ /\ DictHas(value.d, "found")
                            /\ DictGet(value.d, "found", PyNone) = PyBool(TRUE)
                            /\ ~DictHas(value.d, "value")
                      /\ IsFrameOf(history[i].line, resp) )
                    => history[i].outcome = Return(history[i].op.default)

C23_Witness ==
    \E i \in Done :
        /\ history[i].op = OpGet("k", PyInt(7))
        /\ history[i].line
               = ResultFrame(Success(PyDict(<<<<"found", PyBool(TRUE)>>>>)))
        /\ history[i].outcome = Return(PyInt(7))

====
